---- MODULE Spec2Model ----
(***************************************************************************)
(* PixelPipe image processing service (src/services/main.py).              *)
(*                                                                         *)
(* One Pub/Sub message is delivered to the subscriber callback, which runs *)
(* PubSubHandler.process_message: parse the payload, run                   *)
(* ImageProcessor.process_image_job stage by stage (download, metadata,    *)
(* original upload, thumbnail, resize, resized uploads), write the result  *)
(* to Firestore and ack; any exception that reaches process_message nacks. *)
(* The HTTP source, the bucket, Firestore and the encoders are the         *)
(* environment: their outcomes are chosen nondeterministically.            *)
(***************************************************************************)
EXTENDS Integers, Sequences, FiniteSets, TLC

\* ---------------------------------------------------------------- bounds
MaxDeliveries == 2      \* deliveries of one message that the model follows
MaxSizes == 2           \* longest resize_formats list of a job
MaxFormats == 2         \* longest output_formats list of a job
MaxEncodeFailures == 1  \* encoder failures within one resize_image call
MaxSide == 16           \* longest side of the images and boxes of SpecResize
MaxRows == 2            \* rows of the uploaded CSV file

\* ------------------------------------------------------ program constants
max_image_size == 52428800          \* 50 * 1024 * 1024
max_messages == 10                  \* FlowControl(max_messages=10)

\* ------------------------------------------------------- optional values
\* A dict key that may be missing: <<>> is "key absent", <<v>> is "key: v".
None == <<>>
Some(v) == <<v>>
Get(opt, default) == IF opt = None THEN default ELSE opt[1]

Range(s) == {s[i] : i \in 1..Len(s)}
\* The lists of at most n distinct elements of S.
SeqsUpTo(S, n) ==
    {s \in UNION {[1..k -> S] : k \in 0..n} :
        \A i, j \in 1..Len(s) : i # j => s[i] # s[j]}

\* ------------------------------------------------------------ the inputs
Msgs == {"m1"}
JobIdOf(m) == "job-" \o m
ImageIdOf(m) == "img-" \o m

\* A size string is the sequence of its characters: "4x3", "4x" and "2x2".
SizeTokens == {<<"4", "x", "3">>, <<"2", "x", "2">>, <<"4", "x">>}
FormatTokens == {"jpeg", "PNG", "gif"}

\* What the decoder makes of the downloaded bytes.
Images ==
    { [decodable |-> FALSE, width |-> 0, height |-> 0],
      [decodable |-> TRUE, width |-> 4, height |-> 3],
      [decodable |-> TRUE, width |-> 8, height |-> 1] }

\* processing_options of a job; every key may be missing.
ProcessingOptions ==
    [ create_thumbnail : {None, Some(TRUE), Some(FALSE)},
      resize_formats : {None} \cup {Some(s) : s \in SeqsUpTo(SizeTokens, MaxSizes)},
      output_formats : {None} \cup {Some(s) : s \in SeqsUpTo(FormatTokens, MaxFormats)} ]

NoOptions ==
    [create_thumbnail |-> None, resize_formats |-> None, output_formats |-> None]

\* message.data: bytes that are not JSON, or a JSON object whose required
\* keys may be missing.  The options of a job that lacks a required key are
\* never read.  A job carries the retry_count and max_retries its publisher
\* gave it.
Payloads(m) ==
    { [json |-> FALSE, job_id |-> None, image_id |-> None, url |-> None,
       options |-> NoOptions, retry_count |-> None, max_retries |-> None] }
    \cup
    { [json |-> TRUE, job_id |-> j, image_id |-> i, url |-> u, options |-> NoOptions,
       retry_count |-> None, max_retries |-> None] :
        <<j, i, u>> \in
            ({None, Some(JobIdOf(m))} \X {None, Some(ImageIdOf(m))}
                \X {None, Some("http://host/a.jpg")})
            \ {<<Some(JobIdOf(m)), Some(ImageIdOf(m)), Some("http://host/a.jpg")>>} }
    \cup
    { [json |-> TRUE, job_id |-> Some(JobIdOf(m)), image_id |-> Some(ImageIdOf(m)),
       url |-> Some("http://host/a.jpg"), options |-> o,
       retry_count |-> Some(0), max_retries |-> Some(3)] : o \in ProcessingOptions }

\* Bytes in the body of an ordinary answer.
BodyLength == 1024

\* What the HTTP source answers to session.get(url): status and headers,
\* and the body with its length in bytes.
Responses ==
    { [outcome |-> "timeout", status |-> 0, content_type |-> "", content_length |-> None,
       length |-> 0, body |-> [decodable |-> FALSE, width |-> 0, height |-> 0]],
      [outcome |-> "transport_error", status |-> 0, content_type |-> "",
       content_length |-> None, length |-> 0,
       body |-> [decodable |-> FALSE, width |-> 0, height |-> 0]],
      [outcome |-> "response", status |-> 404, content_type |-> "text/html",
       content_length |-> None, length |-> BodyLength,
       body |-> [decodable |-> FALSE, width |-> 0, height |-> 0]],
      [outcome |-> "response", status |-> 500, content_type |-> "image/jpeg",
       content_length |-> None, length |-> BodyLength,
       body |-> [decodable |-> TRUE, width |-> 4, height |-> 3]],
      [outcome |-> "response", status |-> 200, content_type |-> "text/html",
       content_length |-> None, length |-> BodyLength,
       body |-> [decodable |-> FALSE, width |-> 0, height |-> 0]],
      [outcome |-> "response", status |-> 200, content_type |-> "image/jpeg",
       content_length |-> Some(max_image_size + 1), length |-> max_image_size + 1,
       body |-> [decodable |-> TRUE, width |-> 4, height |-> 3]],
      [outcome |-> "response", status |-> 200, content_type |-> "image/jpeg",
       content_length |-> None, length |-> max_image_size + 1,
       body |-> [decodable |-> TRUE, width |-> 4, height |-> 3]],
      [outcome |-> "response", status |-> 200, content_type |-> "image/jpeg",
       content_length |-> Some(BodyLength), length |-> max_image_size + 1,
       body |-> [decodable |-> FALSE, width |-> 0, height |-> 0]] }
    \cup
    { [outcome |-> "response", status |-> 200, content_type |-> "image/jpeg",
       content_length |-> None, length |-> BodyLength, body |-> img] : img \in Images }

\* ------------------------------------------------------- download_image
IsImageType(content_type) == content_type \in {"image/jpeg", "image/png"}

TimeoutMessage == "Download timeout for URL"

\* download_image without the except clause for asyncio.TimeoutError: the
\* timeout falls into the generic clause.
download_image_generic_except(resp) ==
    IF resp.outcome \in {"timeout", "transport_error"}
    THEN [ok |-> FALSE, image |-> resp.body, length |-> 0,
          error |-> "Download failed: connection error"]
    ELSE IF resp.status # 200
    THEN [ok |-> FALSE, image |-> resp.body, length |-> 0,
          error |-> "Download failed: HTTP " \o ToString(resp.status)]
    ELSE IF ~IsImageType(resp.content_type)
    THEN [ok |-> FALSE, image |-> resp.body, length |-> 0,
          error |-> "Download failed: Invalid content type"]
    ELSE IF Get(resp.content_length, 0) > max_image_size
    THEN [ok |-> FALSE, image |-> resp.body, length |-> 0,
          error |-> "Download failed: Image too large"]
    ELSE [ok |-> TRUE, image |-> resp.body, length |-> resp.length, error |-> ""]

\* download_image without the check of response.status.
download_image_any_status(resp) ==
    IF resp.outcome = "timeout"
    THEN [ok |-> FALSE, image |-> resp.body, length |-> 0, error |-> TimeoutMessage]
    ELSE IF resp.outcome = "transport_error"
    THEN [ok |-> FALSE, image |-> resp.body, length |-> 0,
          error |-> "Download failed: connection error"]
    ELSE IF ~IsImageType(resp.content_type)
    THEN [ok |-> FALSE, image |-> resp.body, length |-> 0,
          error |-> "Download failed: Invalid content type"]
    ELSE IF Get(resp.content_length, 0) > max_image_size
    THEN [ok |-> FALSE, image |-> resp.body, length |-> 0,
          error |-> "Download failed: Image too large"]
    ELSE [ok |-> TRUE, image |-> resp.body, length |-> resp.length, error |-> ""]

\* (ok, image, len(image_data)) or the exception's message.  response.read()
\* returns the whole body, whatever the content-length header said.
download_image(resp) ==
    IF resp.outcome = "timeout"
    THEN [ok |-> FALSE, image |-> resp.body, length |-> 0, error |-> TimeoutMessage]
    ELSE IF resp.outcome = "transport_error"
    THEN [ok |-> FALSE, image |-> resp.body, length |-> 0,
          error |-> "Download failed: connection error"]
    ELSE IF resp.status # 200
    THEN [ok |-> FALSE, image |-> resp.body, length |-> 0,
          error |-> "Download failed: HTTP " \o ToString(resp.status)]
    ELSE IF ~IsImageType(resp.content_type)
    THEN [ok |-> FALSE, image |-> resp.body, length |-> 0,
          error |-> "Download failed: Invalid content type"]
    ELSE IF Get(resp.content_length, 0) > max_image_size
    THEN [ok |-> FALSE, image |-> resp.body, length |-> 0,
          error |-> "Download failed: Image too large"]
    ELSE [ok |-> TRUE, image |-> resp.body, length |-> resp.length, error |-> ""]

\* ----------------------------------------------- extract_image_metadata
\* Never raises: a decode failure comes back as {'error': ...}.
extract_image_metadata(img) ==
    IF img.decodable
    THEN [error |-> None, width |-> img.width, height |-> img.height]
    ELSE [error |-> Some("cannot identify image file"), width |-> 0, height |-> 0]

\* ---------------------------------------------------------- resize_image
Digits == {"0", "1", "2", "3", "4", "5", "6", "7", "8", "9"}
DigitVal(c) ==
    CASE c = "0" -> 0 [] c = "1" -> 1 [] c = "2" -> 2 [] c = "3" -> 3 [] c = "4" -> 4
      [] c = "5" -> 5 [] c = "6" -> 6 [] c = "7" -> 7 [] c = "8" -> 8 [] c = "9" -> 9

\* The characters of a size string joined back into the string.
RECURSIVE Str(_)
Str(chars) == IF chars = <<>> THEN "" ELSE chars[1] \o Str(Tail(chars))

\* size_str.split('x')
RECURSIVE Split(_)
Split(chars) ==
    IF \A i \in 1..Len(chars) : chars[i] # "x"
    THEN <<chars>>
    ELSE LET k == CHOOSE i \in 1..Len(chars) :
                      chars[i] = "x" /\ \A j \in 1..(i - 1) : chars[j] # "x"
         IN  <<SubSeq(chars, 1, k - 1)>> \o Split(SubSeq(chars, k + 1, Len(chars)))

\* int(part): -1 stands for ValueError.
RECURSIVE ParseInt(_)
ParseInt(part) ==
    IF part = <<>> \/ \E i \in 1..Len(part) : part[i] \notin Digits
    THEN -1
    ELSE IF Len(part) = 1
    THEN DigitVal(part[1])
    ELSE 10 * ParseInt(SubSeq(part, 1, Len(part) - 1)) + DigitVal(part[Len(part)])

\* ---- img.width / img.height is an IEEE-754 double (53-bit significand,
\* round to nearest) and int() truncates.  The operators below compute
\* int(a / (w / h)) and int(a * (w / h)) with integers only, for positive
\* operands below 2^15, where the quotient w / h is never a rounding tie.

\* e with 2^e <= w / h < 2^(e + 1)
RECURSIVE FloorLog2Ratio(_, _)
FloorLog2Ratio(w, h) ==
    IF w >= 2 * h THEN FloorLog2Ratio(w, 2 * h) + 1
    ELSE IF w < h THEN FloorLog2Ratio(2 * w, h) - 1
    ELSE 0

\* e with 2^e < k <= 2^(e + 1)
RECURSIVE CeilLog2(_)
CeilLog2(k) == IF k <= 1 THEN -1 ELSE CeilLog2((k + 1) \div 2) + 1

\* 2^s mod h
RECURSIVE PowMod2(_, _)
PowMod2(s, h) == IF s = 0 THEN 1 % h ELSE (2 * PowMod2(s - 1, h)) % h

\* a <= b * 2^t, for a >= 0 and b >= 1
RECURSIVE LeScaled(_, _, _)
LeScaled(a, b, t) ==
    IF a <= b THEN t >= 0 \/ LeScaled(2 * a, b, t + 1)
    ELSE t > 0 /\ LeScaled(a, 2 * b, t - 1)

\* The double w / h is m / 2^s with 2^52 <= m < 2^53 the integer nearest to
\* w * 2^s / h; it differs from the exact quotient by d / (h * 2^s).
RoundErr(w, h) ==
    LET s == 52 - FloorLog2Ratio(w, h)
        rho == ((w % h) * PowMod2(s, h)) % h
    IN  [s |-> s,
         d |-> IF rho = 0 THEN 0 ELSE IF 2 * rho < h THEN 0 - rho ELSE h - rho]

\* The product or quotient whose exact value is the integer k comes out k
\* unless the error of w / h pulls it below k by more than half the gap
\* between k and the double before it, 2^(CeilLog2(k) - 53): then it is that
\* double, and int() gives k - 1.
PulledBelow(k, pull, w, s) == ~LeScaled(k * pull, w, s - 53 + CeilLog2(k))

\* int(a / (w / h))
FloatFloorDiv(a, w, h) ==
    LET k == (a * h) \div w
        err == RoundErr(w, h)
    IN  IF (a * h) % w # 0 \/ err.d <= 0 THEN k
        ELSE IF PulledBelow(k, err.d, w, err.s) THEN k - 1
        ELSE k

\* int(a * (w / h))
FloatFloorMul(a, w, h) ==
    LET k == (a * w) \div h
        err == RoundErr(w, h)
    IN  IF (a * w) % h # 0 \/ err.d >= 0 THEN k
        ELSE IF PulledBelow(k, 0 - err.d, w, err.s) THEN k - 1
        ELSE k

\* width, height = map(int, size_str.split('x')), then the aspect-preserving
\* size; ok is FALSE when that raises (ValueError, ZeroDivisionError) or when
\* img.resize raises on an empty target.  The comparison of the two float
\* ratios is the comparison of the exact ones for operands of this size.
PlanSize(img, size_str) ==
    LET parts == Split(size_str)
        width == IF Len(parts) = 2 THEN ParseInt(parts[1]) ELSE -1
        height == IF Len(parts) = 2 THEN ParseInt(parts[2]) ELSE -1
    IN  IF width < 0 \/ height < 0 \/ height = 0
        THEN [ok |-> FALSE, width |-> 0, height |-> 0]
        ELSE LET wider == img.width * height > width * img.height
                 new_width == IF wider THEN width
                              ELSE FloatFloorMul(height, img.width, img.height)
                 new_height == IF wider
                               THEN FloatFloorDiv(width, img.width, img.height)
                               ELSE height
             IN  [ok |-> new_width > 0 /\ new_height > 0,
                  width |-> new_width, height |-> new_height]

Lower(fmt) ==
    CASE fmt = "PNG" -> "png" [] fmt = "JPEG" -> "jpeg" [] fmt = "WebP" -> "webp"
      [] OTHER -> fmt

Supported(fmt) == Lower(fmt) \in {"jpeg", "webp", "png"}

ResultKey(size_str, fmt) == Str(size_str) \o "_" \o Lower(fmt)

\* results[key] = ...: a key already present keeps its place in the dict.
DictPut(keys, key) == IF key \in Range(keys) THEN keys ELSE Append(keys, key)

\* The inner loop with an unsupported format raising instead of being
\* skipped.
RECURSIVE EncodeFormatsUnsupportedRaises(_, _, _, _)
EncodeFormatsUnsupportedRaises(results, size_str, formats, fails) ==
    IF formats = <<>> THEN results
    ELSE LET fmt == Head(formats)
         IN  IF ~Supported(fmt) \/ <<size_str, fmt>> \in fails
             THEN results
             ELSE EncodeFormatsUnsupportedRaises(
                      DictPut(results, ResultKey(size_str, fmt)),
                      size_str, Tail(formats), fails)

\* The inner loop over output_formats for one size.  fails holds the
\* (size, format) targets whose save raises: the exception leaves the loop,
\* with the entries made so far kept.
RECURSIVE EncodeFormats(_, _, _, _)
EncodeFormats(results, size_str, formats, fails) ==
    IF formats = <<>> THEN results
    ELSE LET fmt == Head(formats)
         IN  IF ~Supported(fmt)
             THEN EncodeFormats(results, size_str, Tail(formats), fails)
             ELSE IF <<size_str, fmt>> \in fails
             THEN results
             ELSE EncodeFormats(DictPut(results, ResultKey(size_str, fmt)),
                                size_str, Tail(formats), fails)

\* The loop over target_sizes.
RECURSIVE ResizeSizes(_, _, _, _, _)
ResizeSizes(results, img, sizes, formats, fails) ==
    IF sizes = <<>> THEN results
    ELSE LET size_str == Head(sizes)
             after == IF PlanSize(img, size_str).ok
                      THEN EncodeFormats(results, size_str, formats, fails)
                      ELSE results
         IN  ResizeSizes(after, img, Tail(sizes), formats, fails)

\* The keys of the returned dict, in insertion order.  Never raises.
resize_image(img, target_sizes, output_formats, fails) ==
    IF ~img.decodable THEN <<>>
    ELSE ResizeSizes(<<>>, img, target_sizes, output_formats, fails)

\* ------------------------------------------------------ create_thumbnail
\* TRUE when it returns the JPEG bytes, FALSE when it re-raises.
create_thumbnail(img, encoder_fails) == img.decodable /\ ~encoder_fails

\* The exceptions resize_image catches and logs: one for an undecodable
\* image, else one for each size whose parse, resize or encode raises.
RECURSIVE FirstFailure(_, _, _)
FirstFailure(size_str, formats, fails) ==
    IF formats = <<>> THEN FALSE
    ELSE IF Supported(Head(formats)) /\ <<size_str, Head(formats)>> \in fails THEN TRUE
    ELSE FirstFailure(size_str, Tail(formats), fails)

RECURSIVE ResizeFailures(_, _, _, _)
ResizeFailures(img, sizes, formats, fails) ==
    IF ~img.decodable THEN 1
    ELSE IF sizes = <<>> THEN 0
    ELSE (IF ~PlanSize(img, Head(sizes)).ok \/ FirstFailure(Head(sizes), formats, fails)
          THEN 1 ELSE 0)
         + ResizeFailures(img, Tail(sizes), formats, fails)

\* ------------------------------------------------------ upload_to_storage
BUCKET_NAME == "your-bucket-images"
StorageUrl(file_path) == "gs://" \o BUCKET_NAME \o "/" \o file_path

\* blob.upload_from_string raises, or stores the blob and then
\* blob.make_public raises, or both succeed.
UploadOutcomes == {"ok", "upload_raises", "make_public_raises"}

\* The bucket after the call.
upload_to_storage(blobs, file_path, outcome) ==
    IF outcome = "upload_raises" THEN blobs ELSE blobs \cup {file_path}

OriginalPath(image_id) == "original/" \o image_id \o "/" \o image_id \o "_original.jpg"
ThumbnailPath(image_id) == "thumbnails/" \o image_id \o "/" \o image_id \o "_thumb.jpg"
ResizedPath(image_id, size_format) ==
    "resized/" \o image_id \o "/" \o image_id \o "_" \o size_format

\* ------------------------------------------------------------- the state
VARIABLES
    payload,        \* message.data of each message
    pc,             \* where each message is: in the subscription, or the stage
                    \* its callback is about to run, or acked
    deliveries,     \* times the subscriber handed the message to the callback
    acks,           \* message.ack() calls
    nacks,          \* message.nack() calls
    result,         \* process_image_job's result dict
    image_data,     \* the downloaded bytes, as the decoder sees them
    resized_images, \* keys of resize_image's dict still to upload
    bucket,         \* blob names in the Cloud Storage bucket
    firestore,      \* status of each job document, "missing" if there is none
    run,            \* what happened in the current delivery
    first_success,  \* the blob names in the bucket when the message's job
                    \* first ended 'completed'
    ingest          \* the CSV ingestion function: the rows of the uploaded
                    \* file, how far process_csv_file got, what it saved and
                    \* published

vars ==
    <<payload, pc, deliveries, acks, nacks, result, image_data, resized_images,
      bucket, firestore, run, first_success, ingest>>

NoImage == [decodable |-> FALSE, width |-> 0, height |-> 0]

\* -------------------------------------------- functions: CSV ingestion
\* A row as csv.DictReader hands it over.  A cell is None when the line is
\* shorter than the header, so that None cells are the last ones of a row;
\* else it holds the text of the cell, which may be empty.  The url is
\* kept by its characters.
UrlTokens ==
    { <<>>,
      <<"h", "t", "t", "p", ":", "/", "/", "a">>,
      <<"h", "t", "t", "p", "s", ":", "/", "/", "a">>,
      <<"f", "t", "p", ":", "/", "/", "a">> }

PriorityTokens == {"", "low", "HIGH", "Urgent"}

CsvRows ==
    { r \in [ id : {Some(""), Some("img1")},
              url : {None} \cup {Some(u) : u \in UrlTokens},
              category : {None, Some("cat")},
              priority : {None} \cup {Some(t) : t \in PriorityTokens} ] :
        /\ r.url = None => r.category = None
        /\ r.category = None => r.priority = None }

\* url.startswith(prefix)
StartsWith(chars, prefix) ==
    Len(chars) >= Len(prefix) /\ SubSeq(chars, 1, Len(prefix)) = prefix

\* str.lower() on the priority tokens.
PriorityLower(token) ==
    CASE token = "HIGH" -> "high" [] token = "Urgent" -> "urgent" [] OTHER -> token

\* not row.get(field)
Falsy(cell, empty) == cell = None \/ cell[1] = empty

\* validate_csv_row: the validation result and the row, whose priority it
\* may have rewritten; raises is TRUE when row.get('priority', '') is None
\* and .lower() raises AttributeError.
validate_csv_row(row) ==
    LET missing == SelectSeq(<<"id", "url", "category", "priority">>,
                             LAMBDA field :
                                 \/ field = "id" /\ Falsy(row.id, "")
                                 \/ field = "url" /\ Falsy(row.url, <<>>)
                                 \/ field = "category" /\ Falsy(row.category, "")
                                 \/ field = "priority" /\ Falsy(row.priority, ""))
        bad_url == /\ ~Falsy(row.url, <<>>)
                   /\ ~StartsWith(row.url[1], <<"h", "t", "t", "p", ":", "/", "/">>)
                   /\ ~StartsWith(row.url[1], <<"h", "t", "t", "p", "s", ":", "/", "/">>)
        errors == [i \in 1..Len(missing) |-> "Missing required field: " \o missing[i]]
                  \o (IF bad_url THEN <<"Invalid URL format">> ELSE <<>>)
    IN  IF row.priority = None
        THEN [raises |-> TRUE, valid |-> FALSE, errors |-> <<>>, warnings |-> <<>>,
              row |-> row]
        ELSE LET priority == PriorityLower(row.priority[1])
                 unknown == priority # "" /\ priority \notin {"low", "medium", "high"}
             IN  [raises |-> FALSE,
                  valid |-> errors = <<>>,
                  errors |-> errors,
                  warnings |-> IF unknown THEN <<"Invalid priority: " \o priority>>
                               ELSE <<>>,
                  row |-> IF unknown THEN [row EXCEPT !.priority = Some("medium")]
                          ELSE row]

\* create_processing_job, called for valid rows only.
create_processing_job(row, job_id) ==
    [ job_id |-> job_id,
      image_id |-> row.id[1],
      url |-> row.url[1],
      priority |-> row.priority[1],
      category |-> row.category[1],
      processing_options |->
          [create_thumbnail |-> TRUE,
           resize_formats |-> <<"800x600", "400x300", "200x150">>,
           output_formats |-> <<"jpeg", "webp">>],
      retry_count |-> 0,
      max_retries |-> 3,
      status |-> "queued",
      batch_id |-> job_id ]

\* f"{batch_id}_{row_num:03d}"
RowJobId(row_num) == "batch_00" \o ToString(row_num)

NoJob == <<>>

NoIngest ==
    [ rows |-> <<>>,            \* the rows of the file
      pc |-> "idle",            \* where process_csv_file is
      row_num |-> 0,            \* rows the loop is through
      job |-> NoJob,            \* the job of the current row
      validations |-> <<>>,     \* what validate_csv_row answered, row by row
      saved |-> {},             \* job documents set in Firestore
      published |-> <<>>,       \* jobs published to the topic
      total_rows |-> 0,
      successful_jobs |-> 0,
      failed_validations |-> 0,
      failed_publishes |-> 0 ]

NoResult ==
    [ status |-> "none",
      outputs |-> [original |-> None, thumbnail |-> None, resized |-> None],
      metadata |-> [download |-> None, image |-> None],
      errors |-> <<>> ]

NewRun ==
    [ stages |-> <<>>,          \* stages entered, in order
      uploads |-> <<>>,         \* file_path of every upload_to_storage call
      raised |-> <<>>,          \* stage of every exception raised in a stage
      terminal |-> 0,           \* assignments of a terminal status to the result
      response |-> None,        \* what session.get(url) answered
      resize_call |-> None,     \* resize_image's arguments and what it returned
      update_calls |-> 0,       \* calls of update_job_status
      persisted |-> <<>>,       \* statuses written to the job document
      escaped |-> FALSE,        \* an exception reached process_message's except
      http_response |-> None ]  \* what POST /process returned

JobIds == {JobIdOf(m) : m \in Msgs}

Init ==
    /\ payload \in [Msgs -> UNION {Payloads(m) : m \in Msgs}]
    /\ \A m \in Msgs : payload[m] \in Payloads(m)
    /\ pc = [m \in Msgs |-> "queued"]
    /\ deliveries = [m \in Msgs |-> 0]
    /\ acks = [m \in Msgs |-> 0]
    /\ nacks = [m \in Msgs |-> 0]
    /\ result = [m \in Msgs |-> NoResult]
    /\ image_data = [m \in Msgs |-> NoImage]
    /\ resized_images = [m \in Msgs |-> <<>>]
    /\ bucket = {}
    /\ firestore \in [JobIds -> {"missing", "queued"}]
    /\ run = [m \in Msgs |-> NewRun]
    /\ first_success = [m \in Msgs |-> None]
    /\ ingest = NoIngest

\* ------------------------------------------------------------ the queue
\* subscriber.subscribe hands a message of the subscription to callback,
\* which runs process_message on a fresh event loop.
\* The message is with a callback that has neither acked nor nacked it.
InFlight(m) == pc[m] \notin {"queued", "acked"}

\* The subscriber handing over messages without flow control.
callback_unlimited(m) ==
    /\ pc[m] = "queued"
    /\ deliveries[m] < MaxDeliveries
    /\ deliveries' = [deliveries EXCEPT ![m] = @ + 1]
    /\ pc' = [pc EXCEPT ![m] = "received"]
    /\ result' = [result EXCEPT ![m] = NoResult]
    /\ image_data' = [image_data EXCEPT ![m] = NoImage]
    /\ resized_images' = [resized_images EXCEPT ![m] = <<>>]
    /\ run' = [run EXCEPT ![m] = NewRun]
    /\ UNCHANGED <<payload, first_success, ingest, acks, nacks, bucket, firestore>>

\* The subscriber holds a message back while max_messages messages are
\* with callbacks (flow_control).
callback(m) ==
    /\ pc[m] = "queued"
    /\ deliveries[m] < MaxDeliveries
    /\ Cardinality({x \in DOMAIN pc : InFlight(x)}) < max_messages
    /\ deliveries' = [deliveries EXCEPT ![m] = @ + 1]
    /\ pc' = [pc EXCEPT ![m] = "received"]
    /\ result' = [result EXCEPT ![m] = NoResult]
    /\ image_data' = [image_data EXCEPT ![m] = NoImage]
    /\ resized_images' = [resized_images EXCEPT ![m] = <<>>]
    /\ run' = [run EXCEPT ![m] = NewRun]
    /\ UNCHANGED <<payload, first_success, ingest, acks, nacks, bucket, firestore>>

\* --------------------------------------------------- process_image_job
\* The except clause setting 'failed' without keeping the message.
FailedWithoutMessage(r, message) == [r EXCEPT !.status = "failed"]

\* The except clause of process_image_job: the stage's exception ends the
\* run as 'failed' with its message appended.
Failed(r, message) ==
    [r EXCEPT !.status = "failed", !.errors = Append(@, message)]

RunFailed(rn, stage) ==
    [rn EXCEPT !.stages = Append(@, stage), !.raised = Append(@, stage),
               !.terminal = @ + 1]

\* process_message_start with the except clause acknowledging instead of
\* nacking.
process_message_start_acks(m) ==
    /\ pc[m] = "received"
    /\ IF payload[m].json /\ payload[m].job_id # None /\ payload[m].image_id # None
          /\ payload[m].url # None
       THEN /\ result' = [result EXCEPT ![m] = [NoResult EXCEPT !.status = "processing"]]
            /\ pc' = [pc EXCEPT ![m] = "download"]
            /\ UNCHANGED <<acks, run>>
       ELSE /\ acks' = [acks EXCEPT ![m] = @ + 1]
            /\ run' = [run EXCEPT ![m].escaped = TRUE]
            /\ pc' = [pc EXCEPT ![m] = "acked"]
            /\ UNCHANGED result
    /\ UNCHANGED <<payload, first_success, ingest, deliveries, nacks, image_data,
                   resized_images, bucket,
                   firestore>>

\* json.loads, job_data.get('job_id') and the head of process_image_job up
\* to the result dict.  Invalid JSON raises in json.loads and a missing
\* job_id, image_id or url raises KeyError before the try: both reach
\* process_message's except clause, which nacks, and the message goes back
\* to the subscription.
process_message_start(m) ==
    /\ pc[m] = "received"
    /\ IF payload[m].json /\ payload[m].job_id # None /\ payload[m].image_id # None
          /\ payload[m].url # None
       THEN /\ result' = [result EXCEPT ![m] = [NoResult EXCEPT !.status = "processing"]]
            /\ pc' = [pc EXCEPT ![m] = "download"]
            /\ UNCHANGED <<nacks, run>>
       ELSE /\ nacks' = [nacks EXCEPT ![m] = @ + 1]
            /\ run' = [run EXCEPT ![m].escaped = TRUE]
            /\ pc' = [pc EXCEPT ![m] = "queued"]
            /\ UNCHANGED result
    /\ UNCHANGED <<payload, first_success, ingest, deliveries, acks, image_data,
                   resized_images, bucket,
                   firestore>>

\* DownloadStage with one result dict shared by the jobs in flight: a
\* failed download marks every job being processed as failed.
DownloadStageSharedResult(m) ==
    /\ pc[m] = "download"
    /\ \E resp \in Responses :
         LET d == download_image(resp)
         IN  IF d.ok
             THEN /\ image_data' = [image_data EXCEPT ![m] = d.image]
                  /\ result' = [result EXCEPT
                                  ![m].metadata.download =
                                      Some([content_type |-> resp.content_type,
                                            content_length |-> d.length])]
                  /\ run' = [run EXCEPT ![m].stages = Append(@, "download"),
                                        ![m].response = Some(resp)]
                  /\ pc' = [pc EXCEPT ![m] = "metadata"]
             ELSE /\ result' = [x \in DOMAIN result |->
                                   IF x = m \/ result[x].status = "processing"
                                   THEN Failed(result[x], d.error)
                                   ELSE result[x]]
                  /\ run' = [run EXCEPT ![m] = [RunFailed(@, "download") EXCEPT
                                                  !.response = Some(resp)]]
                  /\ pc' = [pc EXCEPT ![m] = "update_status"]
                  /\ UNCHANGED image_data
    /\ UNCHANGED <<payload, first_success, ingest, deliveries, acks, nacks,
                   resized_images,
                   bucket, firestore>>

\* Step 1: download_image.
DownloadStage(m) ==
    /\ pc[m] = "download"
    /\ \E resp \in Responses :
         LET d == download_image(resp)
         IN  IF d.ok
             THEN /\ image_data' = [image_data EXCEPT ![m] = d.image]
                  /\ result' = [result EXCEPT
                                  ![m].metadata.download =
                                      Some([content_type |-> resp.content_type,
                                            content_length |-> d.length])]
                  /\ run' = [run EXCEPT ![m].stages = Append(@, "download"),
                                        ![m].response = Some(resp)]
                  /\ pc' = [pc EXCEPT ![m] = "metadata"]
             ELSE /\ result' = [result EXCEPT ![m] = Failed(@, d.error)]
                  /\ run' = [run EXCEPT ![m] = [RunFailed(@, "download") EXCEPT
                                                  !.response = Some(resp)]]
                  /\ pc' = [pc EXCEPT ![m] = "update_status"]
                  /\ UNCHANGED image_data
    /\ UNCHANGED <<payload, first_success, ingest, deliveries, acks, nacks,
                   resized_images,
                   bucket, firestore>>

\* MetadataStage going on to the thumbnail before the original is saved.
MetadataStageSkipsOriginal(m) ==
    /\ pc[m] = "metadata"
    /\ LET md == extract_image_metadata(image_data[m])
       IN  /\ result' = [result EXCEPT ![m].metadata.image = Some(md)]
           /\ run' = [run EXCEPT
                        ![m].stages = Append(@, "metadata"),
                        ![m].raised = IF md.error # None THEN Append(@, "metadata")
                                      ELSE @]
    /\ pc' = [pc EXCEPT ![m] = "thumbnail"]
    /\ UNCHANGED <<payload, first_success, ingest, deliveries, acks, nacks, image_data,
                   resized_images, bucket,
                   firestore>>

\* Step 2: extract_image_metadata, which swallows a decode failure.
MetadataStage(m) ==
    /\ pc[m] = "metadata"
    /\ LET md == extract_image_metadata(image_data[m])
       IN  /\ result' = [result EXCEPT ![m].metadata.image = Some(md)]
           /\ run' = [run EXCEPT
                        ![m].stages = Append(@, "metadata"),
                        ![m].raised = IF md.error # None THEN Append(@, "metadata")
                                      ELSE @]
    /\ pc' = [pc EXCEPT ![m] = "upload_original"]
    /\ UNCHANGED <<payload, first_success, ingest, deliveries, acks, nacks, image_data,
                   resized_images, bucket,
                   firestore>>

\* Upload with the exception logged and swallowed instead of re-raised: the
\* run goes on at `next` without the output.
UploadSwallowsFailure(m, stage, file_path, out, next) ==
    \E outcome \in UploadOutcomes :
        /\ bucket' = upload_to_storage(bucket, file_path, outcome)
        /\ result' = [result EXCEPT ![m] = IF outcome = "ok" THEN out ELSE @]
        /\ run' = [run EXCEPT
                     ![m].stages = Append(@, stage),
                     ![m].uploads = Append(@, file_path),
                     ![m].raised = IF outcome = "ok" THEN @ ELSE Append(@, stage)]
        /\ pc' = [pc EXCEPT ![m] = next]

\* The upload with the delivery's number appended to the blob name.
UploadPerDeliveryName(m, stage, file_path, out, next) ==
    \E outcome \in UploadOutcomes :
        /\ bucket' = upload_to_storage(bucket,
                                       file_path \o "." \o ToString(deliveries[m]), outcome)
        /\ IF outcome = "ok"
           THEN /\ result' = [result EXCEPT ![m] = out]
                /\ run' = [run EXCEPT ![m].stages = Append(@, stage),
                                      ![m].uploads = Append(@, file_path)]
                /\ pc' = [pc EXCEPT ![m] = next]
           ELSE /\ result' = [result EXCEPT ![m] = Failed(@, "upload failed")]
                /\ run' = [run EXCEPT ![m] = [RunFailed(@, stage) EXCEPT
                                                !.uploads = Append(@, file_path)]]
                /\ pc' = [pc EXCEPT ![m] = "update_status"]

\* One upload_to_storage call of process_image_job: the blob is written
\* unless the upload itself raises; on success the run goes on at `next`
\* with `out` as the result, else the exception ends the run.
Upload(m, stage, file_path, out, next) ==
    \E outcome \in UploadOutcomes :
        /\ bucket' = upload_to_storage(bucket, file_path, outcome)
        /\ IF outcome = "ok"
           THEN /\ result' = [result EXCEPT ![m] = out]
                /\ run' = [run EXCEPT ![m].stages = Append(@, stage),
                                      ![m].uploads = Append(@, file_path)]
                /\ pc' = [pc EXCEPT ![m] = next]
           ELSE /\ result' = [result EXCEPT ![m] = Failed(@, "upload failed")]
                /\ run' = [run EXCEPT ![m] = [RunFailed(@, stage) EXCEPT
                                                !.uploads = Append(@, file_path)]]
                /\ pc' = [pc EXCEPT ![m] = "update_status"]

\* Step 3: save the original.
UploadOriginal(m) ==
    /\ pc[m] = "upload_original"
    /\ LET original_path == OriginalPath(payload[m].image_id[1])
       IN  Upload(m, "upload_original", original_path,
                  [result[m] EXCEPT !.outputs.original = Some(StorageUrl(original_path))],
                  "thumbnail")
    /\ UNCHANGED <<payload, first_success, ingest, deliveries, acks, nacks, image_data,
                   resized_images, firestore>>

\* Step 4: create_thumbnail, when the job asks for one (the default).
ThumbnailStage(m) ==
    /\ pc[m] = "thumbnail"
    /\ IF Get(payload[m].options.create_thumbnail, TRUE)
       THEN \E encoder_fails \in BOOLEAN :
              IF create_thumbnail(image_data[m], encoder_fails)
              THEN /\ run' = [run EXCEPT ![m].stages = Append(@, "thumbnail")]
                   /\ pc' = [pc EXCEPT ![m] = "upload_thumbnail"]
                   /\ UNCHANGED result
              ELSE /\ result' = [result EXCEPT ![m] = Failed(@, "thumbnail failed")]
                   /\ run' = [run EXCEPT ![m] = RunFailed(@, "thumbnail")]
                   /\ pc' = [pc EXCEPT ![m] = "update_status"]
       ELSE /\ pc' = [pc EXCEPT ![m] = "resize"]
            /\ UNCHANGED <<result, run>>
    /\ UNCHANGED <<payload, first_success, ingest, deliveries, acks, nacks, image_data,
                   resized_images, bucket,
                   firestore>>

UploadThumbnail(m) ==
    /\ pc[m] = "upload_thumbnail"
    /\ LET thumbnail_path == ThumbnailPath(payload[m].image_id[1])
       IN  Upload(m, "upload_thumbnail", thumbnail_path,
                  [result[m] EXCEPT !.outputs.thumbnail = Some(StorageUrl(thumbnail_path))],
                  "resize")
    /\ UNCHANGED <<payload, first_success, ingest, deliveries, acks, nacks, image_data,
                   resized_images, firestore>>

\* The defaults of processing_options.get(...).
DefaultResizeFormats == << <<"4", "0", "0", "x", "3", "0", "0">> >>
DefaultOutputFormats == <<"jpeg">>

\* The (size, format) targets whose encoder may raise, and the sets of
\* them that do within one call.
Targets(sizes, formats) ==
    {t \in Range(sizes) \X Range(formats) : Supported(t[2])}

EncodeFailures(sizes, formats) ==
    {fails \in SUBSET Targets(sizes, formats) : Cardinality(fails) <= MaxEncodeFailures}

\* Step 5: resize_image, when resize_formats is not empty.  resize_image
\* swallows its own failures, so the stage never raises.
ResizeStage(m) ==
    /\ pc[m] = "resize"
    /\ LET resize_formats == Get(payload[m].options.resize_formats, DefaultResizeFormats)
           output_formats == Get(payload[m].options.output_formats, DefaultOutputFormats)
       IN  IF resize_formats # <<>>
           THEN \E fails \in EncodeFailures(resize_formats, output_formats) :
                  LET keys == resize_image(image_data[m], resize_formats,
                                           output_formats, fails)
                      n == ResizeFailures(image_data[m], resize_formats,
                                          output_formats, fails)
                  IN  /\ resized_images' = [resized_images EXCEPT ![m] = keys]
                      /\ result' = [result EXCEPT ![m].outputs.resized = Some({})]
                      /\ run' = [run EXCEPT
                                   ![m].stages = Append(@, "resize"),
                                   ![m].resize_call =
                                       Some([image |-> image_data[m],
                                             target_sizes |-> resize_formats,
                                             output_formats |-> output_formats,
                                             fails |-> fails, results |-> keys]),
                                   ![m].raised = @ \o [i \in 1..n |-> "resize"]]
                      /\ pc' = [pc EXCEPT ![m] = IF keys = <<>> THEN "complete"
                                                 ELSE "upload_resized"]
           ELSE /\ pc' = [pc EXCEPT ![m] = "complete"]
                /\ UNCHANGED <<result, run, resized_images>>
    /\ UNCHANGED <<payload, first_success, ingest, deliveries, acks, nacks, image_data,
                   bucket,
                   firestore>>

\* One turn of the loop over resized_images.items().
UploadResized(m) ==
    /\ pc[m] = "upload_resized"
    /\ resized_images[m] # <<>>
    /\ LET size_format == Head(resized_images[m])
           resized_path == ResizedPath(payload[m].image_id[1], size_format)
       IN  Upload(m, "upload_resized", resized_path,
                  [result[m] EXCEPT
                     !.outputs.resized = Some(@[1] \cup {size_format})],
                  IF Tail(resized_images[m]) = <<>> THEN "complete" ELSE "upload_resized")
    /\ resized_images' = [resized_images EXCEPT ![m] = Tail(@)]
    /\ UNCHANGED <<payload, first_success, ingest, deliveries, acks, nacks, image_data,
                   firestore>>

\* "Success!": every stage returned.
Complete(m) ==
    /\ pc[m] = "complete"
    /\ result' = [result EXCEPT ![m].status = "completed"]
    /\ run' = [run EXCEPT ![m].terminal = @ + 1]
    /\ pc' = [pc EXCEPT ![m] = "update_status"]
    /\ first_success' = [first_success EXCEPT
                            ![m] = IF @ = None THEN Some(bucket) ELSE @]
    /\ UNCHANGED <<payload, ingest, deliveries, acks, nacks, image_data, resized_images,
                   bucket, firestore>>

\* update_job_status writing 'completed' whatever the result says.
update_job_status_completed(m) ==
    /\ pc[m] = "update_status"
    /\ LET job_id == payload[m].job_id[1]
       IN  \E unavailable \in BOOLEAN :
             IF firestore[job_id] # "missing" /\ ~unavailable
             THEN /\ firestore' = [firestore EXCEPT ![job_id] = "completed"]
                  /\ run' = [run EXCEPT ![m].update_calls = @ + 1,
                                        ![m].persisted = Append(@, "completed")]
             ELSE /\ run' = [run EXCEPT ![m].update_calls = @ + 1]
                  /\ UNCHANGED firestore
    /\ pc' = [pc EXCEPT ![m] = "ack"]
    /\ UNCHANGED <<payload, first_success, ingest, deliveries, acks, nacks, result,
                   image_data,
                   resized_images,
                   bucket>>

\* Ack that nacks a 'failed' result, so that the queue delivers it again.
AckUnlessFailed(m) ==
    /\ pc[m] = "ack"
    /\ IF result[m].status = "failed"
       THEN /\ nacks' = [nacks EXCEPT ![m] = @ + 1]
            /\ pc' = [pc EXCEPT ![m] = "queued"]
            /\ UNCHANGED acks
       ELSE /\ acks' = [acks EXCEPT ![m] = @ + 1]
            /\ pc' = [pc EXCEPT ![m] = "acked"]
            /\ UNCHANGED nacks
    /\ UNCHANGED <<payload, first_success, ingest, deliveries, result, image_data,
                   resized_images,
                   bucket, firestore, run>>

\* ------------------------------------------------------- PubSubHandler
\* update_job_status letting the error of doc_ref.update through to
\* process_message, whose except clause nacks.
update_job_status_raises(m) ==
    /\ pc[m] = "update_status"
    /\ LET job_id == payload[m].job_id[1]
       IN  \E unavailable \in BOOLEAN :
             IF firestore[job_id] # "missing" /\ ~unavailable
             THEN /\ firestore' = [firestore EXCEPT ![job_id] = result[m].status]
                  /\ run' = [run EXCEPT ![m].update_calls = @ + 1,
                                        ![m].persisted = Append(@, result[m].status)]
                  /\ pc' = [pc EXCEPT ![m] = "ack"]
                  /\ UNCHANGED nacks
             ELSE /\ run' = [run EXCEPT ![m].update_calls = @ + 1,
                                        ![m].escaped = TRUE]
                  /\ nacks' = [nacks EXCEPT ![m] = @ + 1]
                  /\ pc' = [pc EXCEPT ![m] = "queued"]
                  /\ UNCHANGED firestore
    /\ UNCHANGED <<payload, first_success, ingest, deliveries, acks, result,
                   image_data,
                   resized_images,
                   bucket>>

\* update_job_status waiting for the job document for as long as it does
\* not exist, instead of logging the error and returning.
update_job_status_blocks(m) ==
    /\ pc[m] = "update_status"
    /\ firestore[payload[m].job_id[1]] # "missing"
    /\ firestore' = [firestore EXCEPT ![payload[m].job_id[1]] = result[m].status]
    /\ run' = [run EXCEPT ![m].update_calls = @ + 1,
                          ![m].persisted = Append(@, result[m].status)]
    /\ pc' = [pc EXCEPT ![m] = "ack"]
    /\ UNCHANGED <<payload, first_success, ingest, deliveries, acks, nacks, result,
                   image_data,
                   resized_images,
                   bucket>>

\* doc_ref.update raises when the document does not exist or Firestore is
\* unavailable; update_job_status logs that and returns.
update_job_status(m) ==
    /\ pc[m] = "update_status"
    /\ LET job_id == payload[m].job_id[1]
       IN  \E unavailable \in BOOLEAN :
             IF firestore[job_id] # "missing" /\ ~unavailable
             THEN /\ firestore' = [firestore EXCEPT ![job_id] = result[m].status]
                  /\ run' = [run EXCEPT ![m].update_calls = @ + 1,
                                        ![m].persisted = Append(@, result[m].status)]
             ELSE /\ run' = [run EXCEPT ![m].update_calls = @ + 1]
                  /\ UNCHANGED firestore
    /\ pc' = [pc EXCEPT ![m] = "ack"]
    /\ UNCHANGED <<payload, first_success, ingest, deliveries, acks, nacks, result,
                   image_data,
                   resized_images,
                   bucket>>

\* Ack that schedules the retry of a 'failed' job itself: it counts the
\* retry in the job and publishes the job to the topic again.
AckRepublishesFailed(m) ==
    /\ pc[m] = "ack"
    /\ acks' = [acks EXCEPT ![m] = @ + 1]
    /\ IF /\ result[m].status = "failed"
          /\ payload[m].retry_count[1] < payload[m].max_retries[1]
       THEN /\ payload' = [payload EXCEPT ![m].retry_count = Some(@[1] + 1)]
            /\ pc' = [pc EXCEPT ![m] = "queued"]
       ELSE /\ pc' = [pc EXCEPT ![m] = "acked"]
            /\ UNCHANGED payload
    /\ UNCHANGED <<first_success, ingest, deliveries, nacks, result, image_data,
                   resized_images,
                   bucket, firestore, run>>

\* message.ack(): the message leaves the subscription.
Ack(m) ==
    /\ pc[m] = "ack"
    /\ acks' = [acks EXCEPT ![m] = @ + 1]
    /\ pc' = [pc EXCEPT ![m] = "acked"]
    /\ UNCHANGED <<payload, first_success, ingest, deliveries, nacks, result, image_data,
                   resized_images,
                   bucket, firestore, run>>

Next ==
    \E m \in Msgs :
        \/ callback(m)
        \/ process_message_start(m)
        \/ DownloadStage(m)
        \/ MetadataStage(m)
        \/ UploadOriginal(m)
        \/ ThumbnailStage(m)
        \/ UploadThumbnail(m)
        \/ ResizeStage(m)
        \/ UploadResized(m)
        \/ Complete(m)
        \/ update_job_status(m)
        \/ Ack(m)

Spec == Init /\ [][Next]_vars

\* -------------------------------------------------------- POST /process
\* A request to the HTTP endpoint, which runs process_image_job on the
\* request body: the stages are the ones above, and pc = "update_status"
\* is where process_image_job has returned its result to the caller.
HttpReqs == {"r1"}

\* str(uuid.uuid4())
NewJobId == "uuid4-job"
NewImageId == "uuid4-image"

ErrorResponse(code) == Some([code |-> code, body |-> "error"])
ResultResponse == Some([code |-> 200, body |-> "result"])

\* The body is the JSON object {}.
EmptyObject(job_data) ==
    /\ job_data.json
    /\ job_data.job_id = None /\ job_data.image_id = None /\ job_data.url = None
    /\ job_data.options = NoOptions

\* process_single_image up to the first stage of process_image_job.
\* get_json answers None or raises for a body that is not JSON; a missing
\* 'url' raises KeyError in process_image_job before its try, after
\* job_id and image_id were filled in.
process_single_image(m) ==
    /\ pc[m] = "request"
    /\ IF ~payload[m].json
       THEN /\ \E code \in {400, 500} :
                 run' = [run EXCEPT ![m].http_response = ErrorResponse(code)]
            /\ pc' = [pc EXCEPT ![m] = "responded"]
            /\ UNCHANGED <<payload, result>>
       ELSE IF EmptyObject(payload[m])
       THEN /\ run' = [run EXCEPT ![m].http_response = ErrorResponse(400)]
            /\ pc' = [pc EXCEPT ![m] = "responded"]
            /\ UNCHANGED <<payload, result>>
       ELSE /\ payload' = [payload EXCEPT
                             ![m].job_id = Some(Get(@, NewJobId)),
                             ![m].image_id = Some(Get(@, NewImageId))]
            /\ IF payload[m].url = None
               THEN /\ run' = [run EXCEPT ![m].http_response = ErrorResponse(500),
                                          ![m].escaped = TRUE]
                    /\ pc' = [pc EXCEPT ![m] = "responded"]
                    /\ UNCHANGED result
               ELSE /\ result' = [result EXCEPT
                                    ![m] = [NoResult EXCEPT !.status = "processing"]]
                    /\ pc' = [pc EXCEPT ![m] = "download"]
                    /\ UNCHANGED run
    /\ UNCHANGED <<first_success, ingest, deliveries, acks, nacks, image_data,
                   resized_images,
                   bucket, firestore>>

\* return jsonify(result)
process_single_image_return(m) ==
    /\ pc[m] = "update_status"
    /\ run' = [run EXCEPT ![m].http_response = ResultResponse]
    /\ pc' = [pc EXCEPT ![m] = "responded"]
    /\ UNCHANGED <<payload, first_success, ingest, deliveries, acks, nacks, result,
                   image_data,
                   resized_images, bucket, firestore>>

InitHttp ==
    /\ payload \in [HttpReqs -> UNION {Payloads(m) : m \in HttpReqs}]
    /\ pc = [m \in HttpReqs |-> "request"]
    /\ deliveries = [m \in HttpReqs |-> 0]
    /\ acks = [m \in HttpReqs |-> 0]
    /\ nacks = [m \in HttpReqs |-> 0]
    /\ result = [m \in HttpReqs |-> NoResult]
    /\ image_data = [m \in HttpReqs |-> NoImage]
    /\ resized_images = [m \in HttpReqs |-> <<>>]
    /\ bucket = {}
    /\ firestore = [j \in JobIds |-> "missing"]
    /\ run = [m \in HttpReqs |-> NewRun]
    /\ first_success = [m \in HttpReqs |-> None]
    /\ ingest = NoIngest

NextHttp ==
    \E m \in HttpReqs :
        \/ process_single_image(m)
        \/ DownloadStage(m)
        \/ MetadataStage(m)
        \/ UploadOriginal(m)
        \/ ThumbnailStage(m)
        \/ UploadThumbnail(m)
        \/ ResizeStage(m)
        \/ UploadResized(m)
        \/ Complete(m)
        \/ process_single_image_return(m)

SpecHttp == InitHttp /\ [][NextHttp]_vars

\* ------------------------------------------------------ one resize call
\* A job about to enter the resize stage, for every source image and every
\* bounding box with sides up to MaxSide, and for the 1600x1200 and 1000x1
\* sources with these boxes and the boxes 800x600 and 400x300.
ResizeCalls == {"z1"}

DigitChar(n) ==
    CASE n = 0 -> "0" [] n = 1 -> "1" [] n = 2 -> "2" [] n = 3 -> "3" [] n = 4 -> "4"
      [] n = 5 -> "5" [] n = 6 -> "6" [] n = 7 -> "7" [] n = 8 -> "8" [] n = 9 -> "9"

\* The characters of str(n).
RECURSIVE Chars(_)
Chars(n) == IF n < 10 THEN <<DigitChar(n)>>
            ELSE Append(Chars(n \div 10), DigitChar(n % 10))

SizeStr(width, height) == Chars(width) \o <<"x">> \o Chars(height)

Sources ==
    [decodable : {TRUE}, width : 1..MaxSide, height : 1..MaxSide]
    \cup {[decodable |-> TRUE, width |-> 1600, height |-> 1200],
          [decodable |-> TRUE, width |-> 1000, height |-> 1]}

Boxes ==
    {SizeStr(bw, bh) : <<bw, bh>> \in (1..MaxSide) \X (1..MaxSide)}
    \cup {SizeStr(800, 600), SizeStr(400, 300)}

InitResize ==
    \E img \in Sources, size_str \in Boxes :
        /\ payload = [m \in ResizeCalls |->
                        [json |-> TRUE, job_id |-> Some(JobIdOf(m)),
                         image_id |-> Some(ImageIdOf(m)),
                         url |-> Some("http://host/a.jpg"),
                         options |-> [create_thumbnail |-> Some(FALSE),
                                      resize_formats |-> Some(<<size_str>>),
                                      output_formats |-> Some(<<"jpeg">>)],
                         retry_count |-> Some(0), max_retries |-> Some(3)]]
        /\ pc = [m \in ResizeCalls |-> "resize"]
        /\ deliveries = [m \in ResizeCalls |-> 1]
        /\ acks = [m \in ResizeCalls |-> 0]
        /\ nacks = [m \in ResizeCalls |-> 0]
        /\ result = [m \in ResizeCalls |->
                       [NoResult EXCEPT
                          !.status = "processing",
                          !.outputs.original =
                              Some(StorageUrl(OriginalPath(ImageIdOf(m)))),
                          !.metadata.download =
                              Some([content_type |-> "image/jpeg",
                                    content_length |-> BodyLength]),
                          !.metadata.image = Some(extract_image_metadata(img))]]
        /\ image_data = [m \in ResizeCalls |-> img]
        /\ resized_images = [m \in ResizeCalls |-> <<>>]
        /\ bucket = {OriginalPath(ImageIdOf(m)) : m \in ResizeCalls}
        /\ firestore = [j \in JobIds |-> "queued"]
        /\ run = [m \in ResizeCalls |->
                    [NewRun EXCEPT
                       !.stages = <<"download", "metadata", "upload_original">>,
                       !.uploads = <<OriginalPath(ImageIdOf(m))>>,
                       !.response =
                           Some([outcome |-> "response", status |-> 200,
                                 content_type |-> "image/jpeg",
                                 content_length |-> None, length |-> BodyLength,
                                 body |-> img])]]
        /\ first_success = [m \in ResizeCalls |-> None]
        /\ ingest = NoIngest

NextResize == \E m \in ResizeCalls : ResizeStage(m)

SpecResize == InitResize /\ [][NextResize]_vars

\* ------------------------------------------------ at-least-once delivery
\* The subscription delivers a message again although it was acked (the
\* ack was lost or arrived after the deadline).
Redeliver(m) ==
    /\ pc[m] = "acked"
    /\ deliveries[m] < MaxDeliveries
    /\ pc' = [pc EXCEPT ![m] = "queued"]
    /\ UNCHANGED <<payload, first_success, ingest, deliveries, acks, nacks, result,
                   image_data,
                   resized_images, bucket, firestore, run>>

\* Well-formed jobs with a thumbnail on or off, one or two sizes and one
\* or two formats.
RedeliveredOptions ==
    [ create_thumbnail : {Some(TRUE), Some(FALSE)},
      resize_formats : {Some(<< <<"4", "x", "3">> >>),
                        Some(<< <<"4", "x", "3">>, <<"2", "x", "2">> >>)},
      output_formats : {Some(<<"jpeg">>), Some(<<"PNG", "jpeg">>)} ]

InitRedelivery ==
    /\ payload \in [Msgs -> [json : {TRUE}, job_id : {Some(JobIdOf(m)) : m \in Msgs},
                             image_id : {Some(ImageIdOf(m)) : m \in Msgs},
                             url : {Some("http://host/a.jpg")},
                             options : RedeliveredOptions,
                             retry_count : {Some(0)}, max_retries : {Some(3)}]]
    /\ \A m \in Msgs : /\ payload[m].job_id = Some(JobIdOf(m))
                       /\ payload[m].image_id = Some(ImageIdOf(m))
    /\ pc = [m \in Msgs |-> "queued"]
    /\ deliveries = [m \in Msgs |-> 0]
    /\ acks = [m \in Msgs |-> 0]
    /\ nacks = [m \in Msgs |-> 0]
    /\ result = [m \in Msgs |-> NoResult]
    /\ image_data = [m \in Msgs |-> NoImage]
    /\ resized_images = [m \in Msgs |-> <<>>]
    /\ bucket = {}
    /\ firestore = [j \in JobIds |-> "queued"]
    /\ run = [m \in Msgs |-> NewRun]
    /\ first_success = [m \in Msgs |-> None]
    /\ ingest = NoIngest

NextRedelivery == Next \/ \E m \in Msgs : Redeliver(m)

SpecRedelivery == InitRedelivery /\ [][NextRedelivery]_vars

\* ------------------------------------------------- a subscription backlog
\* One message more than flow control lets through waits in the
\* subscription.  Their payloads are not JSON, so process_message nacks
\* each one at once; each has been delivered and nacked before and has one
\* delivery left of the MaxDeliveries the model follows.
FlowMsgs == {"f" \o ToString(i) : i \in 0..max_messages}

NotJson ==
    [json |-> FALSE, job_id |-> None, image_id |-> None, url |-> None,
     options |-> NoOptions, retry_count |-> None, max_retries |-> None]

InitFlow ==
    /\ payload = [m \in FlowMsgs |-> NotJson]
    /\ pc = [m \in FlowMsgs |-> "queued"]
    /\ deliveries = [m \in FlowMsgs |-> MaxDeliveries - 1]
    /\ acks = [m \in FlowMsgs |-> 0]
    /\ nacks = [m \in FlowMsgs |-> MaxDeliveries - 1]
    /\ result = [m \in FlowMsgs |-> NoResult]
    /\ image_data = [m \in FlowMsgs |-> NoImage]
    /\ resized_images = [m \in FlowMsgs |-> <<>>]
    /\ bucket = {}
    /\ firestore = [j \in JobIds |-> "missing"]
    /\ run = [m \in FlowMsgs |-> [NewRun EXCEPT !.escaped = MaxDeliveries > 1]]
    /\ first_success = [m \in FlowMsgs |-> None]
    /\ ingest = NoIngest

NextFlow ==
    \E m \in FlowMsgs :
        \/ callback(m)
        \/ process_message_start(m)

SpecFlow == InitFlow /\ [][NextFlow]_vars

\* ------------------------------------------------- two messages in flight
\* The subscriber runs callback on a pool of threads, so that two messages
\* are processed at the same time, their stages interleaved in any order.
\* Each message is a job with a thumbnail, one size and one format, or is
\* not JSON; the jobs have their own job_id and may name the same image.
PairMsgs == {"p1", "p2"}

PairPayloads(m) ==
    {NotJson} \cup
    { [json |-> TRUE, job_id |-> Some(JobIdOf(m)), image_id |-> Some(i),
       url |-> Some("http://host/a.jpg"),
       options |-> [create_thumbnail |-> Some(TRUE),
                    resize_formats |-> Some(<< <<"4", "x", "3">> >>),
                    output_formats |-> Some(<<"jpeg">>)],
       retry_count |-> Some(0), max_retries |-> Some(3)] :
        i \in {ImageIdOf(m), "img-shared"} }

InitPair ==
    /\ payload \in [PairMsgs -> UNION {PairPayloads(m) : m \in PairMsgs}]
    /\ \A m \in PairMsgs : payload[m] \in PairPayloads(m)
    /\ pc = [m \in PairMsgs |-> "queued"]
    /\ deliveries = [m \in PairMsgs |-> 0]
    /\ acks = [m \in PairMsgs |-> 0]
    /\ nacks = [m \in PairMsgs |-> 0]
    /\ result = [m \in PairMsgs |-> NoResult]
    /\ image_data = [m \in PairMsgs |-> NoImage]
    /\ resized_images = [m \in PairMsgs |-> <<>>]
    /\ bucket = {}
    /\ firestore = [j \in {JobIdOf(m) : m \in PairMsgs} |-> "queued"]
    /\ run = [m \in PairMsgs |-> NewRun]
    /\ first_success = [m \in PairMsgs |-> None]
    /\ ingest = NoIngest

NextPair ==
    \E m \in PairMsgs :
        \/ callback(m)
        \/ process_message_start(m)
        \/ DownloadStage(m)
        \/ MetadataStage(m)
        \/ UploadOriginal(m)
        \/ ThumbnailStage(m)
        \/ UploadThumbnail(m)
        \/ ResizeStage(m)
        \/ UploadResized(m)
        \/ Complete(m)
        \/ update_job_status(m)
        \/ Ack(m)

SpecPair == InitPair /\ [][NextPair]_vars

\* ------------------------------------------------- a callback runs to its end
\* loop.run_until_complete(process_message(message)) runs the coroutine
\* until it returns, and every download, upload and status-store call
\* returns or raises: a message that is with a callback takes its next step.
\* Whether and when the subscription delivers a message is up to the queue.
\* ResizeStage(m) is enabled exactly when pc[m] = "resize" and every step of
\* it leaves that place, so that weak fairness of it says that the message
\* does not stay there for ever.
Fairness ==
    \A m \in Msgs :
        /\ WF_vars(process_message_start(m))
        /\ WF_vars(DownloadStage(m))
        /\ WF_vars(MetadataStage(m))
        /\ WF_vars(UploadOriginal(m))
        /\ WF_vars(ThumbnailStage(m))
        /\ WF_vars(UploadThumbnail(m))
        /\ []<>(pc[m] # "resize")
        /\ WF_vars(UploadResized(m))
        /\ WF_vars(Complete(m))
        /\ WF_vars(update_job_status(m))
        /\ WF_vars(Ack(m))

\* The messages of Init whose job, if they are one, has no options or the
\* options of RedeliveredOptions.
InitLive ==
    /\ Init
    /\ \A m \in Msgs :
         payload[m].options = NoOptions \/ payload[m].options \in RedeliveredOptions

SpecLive == InitLive /\ [][Next]_vars /\ Fairness

\* ------------------------------------------------------ process_csv_file
\* The head of the loop over the rows: count the row, validate it, and
\* create its job when it is valid.  An exception of validate_csv_row
\* leaves process_csv_file.
ValidateRow ==
    /\ ingest.pc = "validate"
    /\ ingest.row_num < Len(ingest.rows)
    /\ LET row_num == ingest.row_num + 1
           v == validate_csv_row(ingest.rows[row_num])
           counted == [ingest EXCEPT !.total_rows = @ + 1,
                                     !.validations = Append(@, v)]
       IN  ingest' =
               IF v.raises THEN [counted EXCEPT !.pc = "raised"]
               ELSE IF ~v.valid
               THEN [counted EXCEPT !.failed_validations = @ + 1,
                                    !.row_num = row_num]
               ELSE [counted EXCEPT
                       !.job = Some(create_processing_job(v.row, RowJobId(row_num))),
                       !.pc = "save"]
    /\ UNCHANGED <<payload, pc, deliveries, acks, nacks, result, image_data,
                   resized_images, bucket, firestore, run, first_success>>

\* save_job_metadata, which logs a Firestore error and returns.
SaveJob ==
    /\ ingest.pc = "save"
    /\ \E stored \in BOOLEAN :
         ingest' = [ingest EXCEPT
                      !.saved = IF stored THEN @ \cup {ingest.job[1]} ELSE @,
                      !.pc = "publish"]
    /\ UNCHANGED <<payload, pc, deliveries, acks, nacks, result, image_data,
                   resized_images, bucket, firestore, run, first_success>>

\* publish_job_to_pubsub, FALSE when the publish raises or times out.
PublishJob ==
    /\ ingest.pc = "publish"
    /\ \E sent \in BOOLEAN :
         ingest' = [ingest EXCEPT
                      !.published = IF sent THEN Append(@, ingest.job[1]) ELSE @,
                      !.successful_jobs = IF sent THEN @ + 1 ELSE @,
                      !.failed_publishes = IF sent THEN @ ELSE @ + 1,
                      !.row_num = @ + 1,
                      !.job = NoJob,
                      !.pc = "validate"]
    /\ UNCHANGED <<payload, pc, deliveries, acks, nacks, result, image_data,
                   resized_images, bucket, firestore, run, first_success>>

\* The loop is through the file: return results.
ReturnResults ==
    /\ ingest.pc = "validate"
    /\ ingest.row_num = Len(ingest.rows)
    /\ ingest' = [ingest EXCEPT !.pc = "done"]
    /\ UNCHANGED <<payload, pc, deliveries, acks, nacks, result, image_data,
                   resized_images, bucket, firestore, run, first_success>>

NoMsgs == {}

InitCsv ==
    /\ ingest \in {[NoIngest EXCEPT !.rows = rows, !.pc = "validate"] :
                     rows \in UNION {[1..n -> CsvRows] : n \in 0..MaxRows}}
    /\ payload = [m \in NoMsgs |-> NotJson]
    /\ pc = [m \in NoMsgs |-> "queued"]
    /\ deliveries = [m \in NoMsgs |-> 0]
    /\ acks = [m \in NoMsgs |-> 0]
    /\ nacks = [m \in NoMsgs |-> 0]
    /\ result = [m \in NoMsgs |-> NoResult]
    /\ image_data = [m \in NoMsgs |-> NoImage]
    /\ resized_images = [m \in NoMsgs |-> <<>>]
    /\ bucket = {}
    /\ firestore = [j \in JobIds |-> "missing"]
    /\ run = [m \in NoMsgs |-> NewRun]
    /\ first_success = [m \in NoMsgs |-> None]

NextCsv == ValidateRow \/ SaveJob \/ PublishJob \/ ReturnResults

SpecCsv == InitCsv /\ [][NextCsv]_vars

\* ------------------------------------------------------------ the claims
Terminal == {"completed", "failed"}

\* process_image_job has returned its result to process_message.
Returned(m) == pc[m] \in {"update_status", "ack", "acked"}

Raised(m, stage) == stage \in Range(run[m].raised)

ThumbnailEnabled(m) == Get(payload[m].options.create_thumbnail, TRUE)

ResizeRequested(m) ==
    Get(payload[m].options.resize_formats, DefaultResizeFormats) # <<>>

\* C1: when the download or the upload of the original raises, the job is
\* 'failed' at once and the run ends there: the failing stage is the last
\* one entered, no thumbnail or resize output exists and upload_to_storage
\* is not called again.
C1_MandatoryFailureStops ==
    \A m \in Msgs :
        /\ Raised(m, "download") =>
             /\ result[m].status = "failed"
             /\ Returned(m)
             /\ run[m].stages = <<"download">>
             /\ run[m].uploads = <<>>
             /\ result[m].outputs = NoResult.outputs
        /\ Raised(m, "upload_original") =>
             /\ result[m].status = "failed"
             /\ Returned(m)
             /\ run[m].stages = <<"download", "metadata", "upload_original">>
             /\ run[m].uploads = <<OriginalPath(payload[m].image_id[1])>>
             /\ result[m].outputs = NoResult.outputs
             /\ resized_images[m] = <<>>

C1_Witness ==
    \E m \in Msgs :
        /\ pc[m] = "acked"
        /\ Raised(m, "upload_original")
        /\ ThumbnailEnabled(m)
        /\ ResizeRequested(m)

\* C2: with create_thumbnail enabled and the original uploaded, a failure
\* of create_thumbnail is kept in the error list and the job still runs the
\* resize stage and ends 'completed'.
C2_ThumbnailFailureNotFatal ==
    \A m \in Msgs :
        (Returned(m) /\ ThumbnailEnabled(m) /\ Raised(m, "thumbnail")) =>
            /\ result[m].errors # <<>>
            /\ ResizeRequested(m) => "resize" \in Range(run[m].stages)
            /\ result[m].status = "completed"

\* C3: only the upload of the original is fatal: a failed upload of the
\* thumbnail or of one resized variant leaves the job 'completed' with the
\* failure recorded, a failed upload of the original makes it 'failed'.
C3_OnlyOriginalUploadFatal ==
    \A m \in Msgs :
        Returned(m) =>
            /\ (Raised(m, "upload_thumbnail") \/ Raised(m, "upload_resized")) =>
                 (result[m].status = "completed" /\ result[m].errors # <<>>)
            /\ Raised(m, "upload_original") => result[m].status = "failed"

\* C4: in resize_image a failing (size, format) target removes only itself
\* from the returned map: every requested target with a supported format
\* whose own resize and encode do not fail is in the map, the other formats
\* of the same size included.
C4_OnlyFailingTargetExcluded ==
    \A m \in Msgs :
        run[m].resize_call # None =>
            LET c == run[m].resize_call[1]
            IN  c.image.decodable =>
                  \A s \in Range(c.target_sizes), f \in Range(c.output_formats) :
                      (Supported(f) /\ PlanSize(c.image, s).ok /\ <<s, f>> \notin c.fails)
                          => ResultKey(s, f) \in Range(c.results)

\* C5: every exception raised in a stage (download, metadata decode,
\* original upload, thumbnail, each resize target) is appended to the
\* result's error list: 'errors' has one entry per stage failure of the run.
C5_EveryStageFailureInErrors ==
    \A m \in Msgs :
        Returned(m) => Len(result[m].errors) = Len(run[m].raised)

\* C6 as stated: for each delivery (that yields a result) the result
\* enters a terminal status exactly once and exactly one status update
\* carrying that status is persisted to the job document.
C6_OneTerminalOnePersistedUpdate ==
    \A m \in Msgs :
        pc[m] = "acked" =>
            /\ run[m].terminal = 1
            /\ result[m].status \in Terminal
            /\ run[m].persisted = <<result[m].status>>

\* C6 as amended: for each delivery in which process_image_job returns a
\* result, the result enters a terminal status exactly once and keeps it,
\* and update_job_status is called exactly once with it; the status is
\* written to the job document at most once, and not at all when the
\* document is missing (or the update raises).  A delivery whose payload is
\* rejected before a result exists has no terminal status and no update.
C6_StatusOnceUpdateAtMostOnce ==
    \A m \in Msgs :
        /\ Returned(m) =>
             (run[m].terminal = 1 /\ result[m].status \in Terminal)
        /\ ~Returned(m) =>
             (run[m].terminal = 0 /\ result[m].status \notin Terminal
              /\ run[m].update_calls = 0 /\ run[m].persisted = <<>>)
        /\ pc[m] = "update_status" =>
             (run[m].update_calls = 0 /\ run[m].persisted = <<>>)
        /\ pc[m] \in {"ack", "acked"} =>
             /\ run[m].update_calls = 1
             /\ run[m].persisted \in {<<>>, <<result[m].status>>}
             /\ run[m].persisted # <<>> =>
                  firestore[payload[m].job_id[1]] = result[m].status
             /\ firestore[payload[m].job_id[1]] = "missing" => run[m].persisted = <<>>

C6_TerminalOnceUpdateOnce ==
    /\ []C6_StatusOnceUpdateAtMostOnce
    /\ [][\A m \in Msgs :
            result[m].status \in Terminal => result'[m].status = result[m].status]_vars

C6_Witness ==
    \E m \in Msgs :
        /\ pc[m] = "acked"
        /\ result[m].status = "failed"
        /\ run[m].persisted = <<"failed">>

\* C7: whenever process_image_job returns a result with a terminal status
\* (completed, completed with swallowed stage failures, or failed), the
\* delivery is not nacked and ends with message.ack().
C7_TerminalResultIsAcked ==
    \A m \in Msgs :
        result[m].status \in Terminal =>
            /\ Returned(m)
            /\ ~run[m].escaped
            /\ nacks[m] = deliveries[m] - 1
            /\ acks[m] = IF pc[m] = "acked" THEN 1 ELSE 0
            /\ pc[m] # "acked" => ENABLED (update_job_status(m) \/ Ack(m))

C7_Witness ==
    \E m \in Msgs :
        /\ pc[m] = "acked"
        /\ acks[m] = 1
        /\ result[m].status = "completed"
        /\ run[m].raised # <<>>

\* C8: when an exception escapes to process_message (the payload is not
\* JSON, or process_image_job raises on a missing key), the message is
\* never acked: it is nacked, is back in the subscription and can be
\* delivered again.
Malformed(m) ==
    \/ ~payload[m].json
    \/ payload[m].job_id = None
    \/ payload[m].image_id = None
    \/ payload[m].url = None

C8_EscapedExceptionNacks ==
    \A m \in Msgs :
        /\ run[m].escaped =>
             /\ Malformed(m)
             /\ pc[m] = "queued"
             /\ result[m].status = "none"
             /\ nacks[m] = deliveries[m]
             /\ deliveries[m] < MaxDeliveries => ENABLED callback(m)
        /\ Malformed(m) =>
             /\ acks[m] = 0
             /\ pc[m] \in {"queued", "received"}
             /\ pc[m] = "queued" => nacks[m] = deliveries[m]

C8_Witness ==
    \E m \in Msgs :
        /\ run[m].escaped
        /\ payload[m].json
        /\ payload[m].url = None
        /\ deliveries[m] = 2
        /\ nacks[m] = 2

\* C9: a malformed job message (job_id, image_id or url missing, or not
\* valid JSON) is never retried: it is not nacked and the queue does not
\* deliver it a second time.
C9_MalformedNeverRetried ==
    \A m \in Msgs :
        Malformed(m) => (nacks[m] = 0 /\ deliveries[m] <= 1)

\* C10: the message of a job whose download failed is left unacknowledged,
\* so that the queue delivers it again.
C10_DownloadFailureNotAcked ==
    \A m \in Msgs :
        Raised(m, "download") => (acks[m] = 0 /\ pc[m] # "acked")

\* The downloaded bytes could not be decoded as an image.
Undecodable(m) == "download" \in Range(run[m].stages) /\ ~image_data[m].decodable

\* C11: a job whose downloaded bytes cannot be decoded ends 'failed' when
\* the thumbnail or at least one resize target is requested; with
\* create_thumbnail disabled and a non-empty resize_formats it does not end
\* 'completed'.
C11_UndecodableFailsWhenDecodeNeeded ==
    \A m \in Msgs :
        (Returned(m) /\ Undecodable(m)
           /\ (ThumbnailEnabled(m) \/ ResizeRequested(m))) =>
            result[m].status = "failed"

\* The source answered the run's download with this HTTP status.
Answered(m, status) ==
    /\ run[m].response # None
    /\ run[m].response[1].outcome = "response"
    /\ run[m].response[1].status = status

HttpStatuses == {resp.status : resp \in {r \in Responses : r.outcome = "response"}}

\* C12: when the source answers with a non-2xx HTTP status, the download
\* stage raises a download error, the job ends 'failed' and that run makes
\* no upload to storage.
C12_Non2xxFailsWithoutUpload ==
    \A m \in Msgs :
        \A status \in HttpStatuses \ (200..299) :
            Answered(m, status) =>
                /\ Returned(m)
                /\ run[m].raised = <<"download">>
                /\ result[m].status = "failed"
                /\ result[m].errors = <<"Download failed: HTTP " \o ToString(status)>>
                /\ run[m].uploads = <<>>

C12_Witness ==
    \E m \in Msgs :
        /\ pc[m] = "acked"
        /\ Answered(m, 500)
        /\ IsImageType(run[m].response[1].content_type)
        /\ run[m].response[1].body.decodable

\* C13: the number of body bytes download_image reads and returns is at
\* most the maximum image size, also when the content-length header is
\* absent or smaller than the body.
C13_BodyReadBounded ==
    \A m \in Msgs :
        result[m].metadata.download # None =>
            result[m].metadata.download[1].content_length <= max_image_size

\* C14: a download that exceeds the timeout ends the job 'failed' with a
\* timeout message in the errors and neither an original nor any resized
\* output.
C14_TimeoutFails ==
    \A m \in Msgs :
        (run[m].response # None /\ run[m].response[1].outcome = "timeout") =>
            /\ Returned(m)
            /\ result[m].status = "failed"
            /\ TimeoutMessage \in Range(result[m].errors)
            /\ result[m].outputs.original = None
            /\ result[m].outputs.resized = None
            /\ run[m].uploads = <<>>

C14_Witness ==
    \E m \in Msgs :
        /\ pc[m] = "acked"
        /\ run[m].response # None
        /\ run[m].response[1].outcome = "timeout"
        /\ ThumbnailEnabled(m)
        /\ ResizeRequested(m)

\* C16: every storage key written for a job is exactly
\* original/{image_id}/{image_id}_original,
\* thumbnails/{image_id}/{image_id}_thumb or
\* resized/{image_id}/{image_id}_{size}_{format}, with nothing appended.
C16_ExactStorageKeys ==
    \A m \in Msgs :
        \A i \in 1..Len(run[m].uploads) :
            LET id == payload[m].image_id[1]
                sizes == Get(payload[m].options.resize_formats, DefaultResizeFormats)
                formats == Get(payload[m].options.output_formats, DefaultOutputFormats)
            IN  run[m].uploads[i] \in
                    {"original/" \o id \o "/" \o id \o "_original",
                     "thumbnails/" \o id \o "/" \o id \o "_thumb"}
                    \cup {"resized/" \o id \o "/" \o id \o "_" \o Str(sz) \o "_" \o Lower(f) :
                            <<sz, f>> \in Range(sizes) \X Range(formats)}

\* A format token the claim counts as supported, compared without case.
IsSupportedToken(fmt) == fmt \in {"jpeg", "JPEG", "webp", "WebP", "png", "PNG"}

\* C18: a format token other than jpeg, webp or png (in any case) gives no
\* entry and raises nothing: resize_image returns the same entries, under
\* the keys "{size}_{format}", and catches the same number of exceptions as
\* it does for the list without that token, and the job still ends
\* 'completed' unless an upload fails.
C18_UnsupportedFormatSkipped ==
    \A m \in Msgs :
        run[m].resize_call # None =>
            LET c == run[m].resize_call[1]
                kept == SelectSeq(c.output_formats, IsSupportedToken)
                caught == SelectSeq(run[m].raised, LAMBDA st : st = "resize")
            IN  /\ c.results = resize_image(c.image, c.target_sizes, kept, c.fails)
                /\ Len(caught) = ResizeFailures(c.image, c.target_sizes, kept, c.fails)
                /\ \A key \in Range(c.results) :
                       \E sz \in Range(c.target_sizes), f \in Range(kept) :
                           key = Str(sz) \o "_" \o Lower(f)
                /\ (c.image.decodable /\ c.fails = {}) =>
                       \A sz \in Range(c.target_sizes), f \in Range(kept) :
                           PlanSize(c.image, sz).ok =>
                               Str(sz) \o "_" \o Lower(f) \in Range(c.results)
                /\ (Returned(m) /\ ~Raised(m, "upload_resized")) =>
                       result[m].status = "completed"

C18_Witness ==
    \E m \in Msgs :
        /\ pc[m] = "acked"
        /\ result[m].status = "completed"
        /\ run[m].resize_call # None
        /\ run[m].resize_call[1].output_formats = <<"gif", "PNG">>
        /\ run[m].resize_call[1].results = <<"4x3_png">>
        /\ run[m].raised = <<>>

ResizedJobKeys(m) ==
    LET id == payload[m].image_id[1]
        sizes == Get(payload[m].options.resize_formats, DefaultResizeFormats)
        formats == Get(payload[m].options.output_formats, DefaultOutputFormats)
    IN  {ResizedPath(id, ResultKey(sz, f)) :
            <<sz, f>> \in {t \in Range(sizes) \X Range(formats) : Supported(t[2])}}

JobKeys(m) ==
    LET id == payload[m].image_id[1]
    IN  {OriginalPath(id)}
        \cup (IF ThumbnailEnabled(m) THEN {ThumbnailPath(id)} ELSE {})
        \cup ResizedJobKeys(m)

\* C15 as stated: once the job of a message has succeeded, the distinct
\* keys in storage stay the set they were after that run, however often
\* the message is delivered again.
C15_RedeliveryAddsNoKey ==
    \A m \in Msgs :
        first_success[m] # None => bucket = first_success[m][1]

\* C15: the keys written for a job depend only on image_id, size and
\* format, so every run writes within the job's fixed set of keys; after
\* the job has succeeded, redeliveries never remove a key and add none
\* when the successful run stored every resize target of the job.
C15_RedeliveryWritesJobKeys ==
    \A m \in Msgs :
        /\ ~Malformed(m) => bucket \subseteq JobKeys(m)
        /\ first_success[m] # None =>
              /\ first_success[m][1] \subseteq bucket
              /\ ResizedJobKeys(m) \subseteq first_success[m][1] =>
                    bucket = first_success[m][1]

C15_Witness ==
    \E m \in Msgs :
        /\ deliveries[m] = 2
        /\ acks[m] = 2
        /\ pc[m] = "acked"
        /\ result[m].status = "completed"
        /\ first_success[m] # None
        /\ ResizedJobKeys(m) # {}
        /\ ResizedJobKeys(m) \subseteq first_success[m][1]
        /\ bucket = first_success[m][1]

\* C20: POST /process answers every JSON request body (the empty object,
\* which the endpoint rejects as no body, left aside) with the full result
\* object of process_image_job, job_id and image_id filled in when the body
\* lacks them, and never with a bare error response caused by an exception
\* (for instance when the body lacks 'url').
C20_ProcessReturnsResult ==
    \A m \in DOMAIN pc :
        (pc[m] = "responded" /\ payload[m].json /\ ~EmptyObject(payload[m])) =>
            /\ run[m].http_response = ResultResponse
            /\ result[m].status \in Terminal
            /\ payload[m].job_id # None
            /\ payload[m].image_id # None

\* C17: for a source w x h and a box W x H the resize target fits the box,
\* one of its sides equals the side of the box and the other is the
\* proportional scale rounded down: the width is W and the height
\* floor(W * h / w) when w / h > W / H, else the height is H and the width
\* floor(H * w / h).  A 1600x1200 source gives exactly 800x600 and 400x300.
C17_AspectFitFloored ==
    \A m \in DOMAIN pc :
        run[m].resize_call # None =>
            LET c == run[m].resize_call[1]
                w == c.image.width
                h == c.image.height
            IN  \A i \in 1..Len(c.target_sizes) :
                    LET parts == Split(c.target_sizes[i])
                        bw == ParseInt(parts[1])
                        bh == ParseInt(parts[2])
                        target == PlanSize(c.image, c.target_sizes[i])
                    IN  (c.image.decodable /\ Len(parts) = 2 /\ target.ok) =>
                            /\ target.width <= bw
                            /\ target.height <= bh
                            /\ IF w * bh > bw * h
                               THEN /\ target.width = bw
                                    /\ target.height = (bw * h) \div w
                               ELSE /\ target.height = bh
                                    /\ target.width = (bh * w) \div h

\* The job of a row of the file has reached Firestore or the topic.
RowHasJob(i) ==
    \/ \E job \in ingest.saved : job.job_id = RowJobId(i)
    \/ \E k \in 1..Len(ingest.published) : ingest.published[k].job_id = RowJobId(i)

\* The row lacks its identifier or url, or its url has another scheme.
RowUnacceptable(row) ==
    \/ Falsy(row.id, "")
    \/ Falsy(row.url, <<>>)
    \/ /\ ~StartsWith(row.url[1], <<"h", "t", "t", "p", ":", "/", "/">>)
       /\ ~StartsWith(row.url[1], <<"h", "t", "t", "p", "s", ":", "/", "/">>)

\* C21: a row whose identifier or url is missing, or whose url starts with
\* neither http:// nor https://, is marked invalid by validation (a
\* validation result with valid = FALSE, counted as a failed validation),
\* and no job of it is saved or published; no row marked invalid has a
\* saved or a published job.
C21_InvalidRowMarkedAndDropped ==
    \A i \in 1..Len(ingest.validations) :
        LET v == ingest.validations[i]
        IN  /\ RowUnacceptable(ingest.rows[i]) =>
                /\ ~v.raises /\ ~v.valid /\ v.errors # <<>>
                /\ ~RowHasJob(i)
            /\ (~v.raises /\ ~v.valid) => ~RowHasJob(i)

\* C22: a row whose priority token is not empty and is none of low,
\* medium, high gets a warning and the priority medium, and is valid
\* whenever it has no error; every job saved or published has a priority
\* among low, medium, high.
C22_UnknownPriorityBecomesMedium ==
    /\ \A i \in 1..Len(ingest.validations) :
           LET v == ingest.validations[i]
               token == ingest.rows[i].priority
           IN  (token # None /\ token[1] \notin {"", "low", "medium", "high"}) =>
                   /\ ~v.raises
                   /\ v.warnings # <<>>
                   /\ v.row.priority = Some("medium")
                   /\ v.valid <=> v.errors = <<>>
    /\ \A job \in ingest.saved \cup Range(ingest.published) :
           job.priority \in {"low", "medium", "high"}

\* C23: no step of the worker changes a job's retry_count or max_retries or
\* adds a message to the subscription, and a message is handed to callback
\* again only from the subscription, where it is after a nack: every
\* earlier delivery of it was nacked and none acked.
C23_NoSelfScheduledRetry ==
    [][ /\ DOMAIN payload' = DOMAIN payload
        /\ \A m \in Msgs :
             /\ payload'[m].retry_count = payload[m].retry_count
             /\ payload'[m].max_retries = payload[m].max_retries
             /\ deliveries'[m] # deliveries[m] =>
                   /\ deliveries'[m] = deliveries[m] + 1
                   /\ pc[m] = "queued"
                   /\ acks[m] = 0
                   /\ nacks[m] = deliveries[m] ]_vars

\* A job has failed with retries left in its descriptor, and its message
\* is acked.
C23_Witness ==
    \E m \in Msgs :
        /\ pc[m] = "acked"
        /\ result[m].status = "failed"
        /\ payload[m].retry_count = Some(0)
        /\ payload[m].max_retries = Some(3)
        /\ deliveries[m] = 1

\* What the worker holds for one message: where its run is, its result,
\* its settlement and its job's status document.
Private(m) ==
    <<pc[m], deliveries[m], acks[m], nacks[m], result[m], image_data[m],
      resized_images[m], run[m], first_success[m],
      IF payload[m].job_id = None THEN None ELSE Some(firestore[payload[m].job_id[1]])>>

\* The next step of a message that is with a callback, but for
\* ResizeStage, whose only condition is pc[m] = "resize".
OwnStep(m) ==
    \/ process_message_start(m)
    \/ DownloadStage(m)
    \/ MetadataStage(m)
    \/ UploadOriginal(m)
    \/ ThumbnailStage(m)
    \/ UploadThumbnail(m)
    \/ UploadResized(m)
    \/ Complete(m)
    \/ update_job_status(m)
    \/ Ack(m)

\* C24: with two messages of different job_id in flight, every step is the
\* step of one message and leaves the other message's run, result (status,
\* outputs, errors), acks, nacks and status document as they are, whatever
\* the step's outcome; and a message in flight can always take its next
\* step, whatever the state of the other.
C24_ConcurrentJobsIndependent ==
    /\ [][ \A m \in PairMsgs : \A n \in PairMsgs \ {m} :
               Private(m)' # Private(m) => Private(n)' = Private(n) ]_vars
    /\ [](\A m \in PairMsgs :
             InFlight(m) => (pc[m] = "resize" \/ ENABLED OwnStep(m)))

\* Both messages are with a callback: one has failed on a download timeout
\* and is about to store its status, the other has downloaded its image and
\* is still 'processing'.
C24_Witness ==
    \E m \in PairMsgs : \E n \in PairMsgs \ {m} :
        /\ pc[m] = "update_status"
        /\ result[m].status = "failed"
        /\ result[m].errors = <<TimeoutMessage>>
        /\ pc[n] = "upload_original"
        /\ result[n].status = "processing"
        /\ result[n].errors = <<>>

\* The place of a stage in process_image_job.
StageRank(stage) ==
    CASE stage = "download" -> 1
      [] stage = "metadata" -> 2
      [] stage = "upload_original" -> 3
      [] stage = "thumbnail" -> 4
      [] stage = "upload_thumbnail" -> 5
      [] stage = "resize" -> 6
      [] stage = "upload_resized" -> 7

\* A size string "WxH" with W and H positive.
WellFormedSize(size_str) ==
    /\ Len(Split(size_str)) = 2
    /\ ParseInt(Split(size_str)[1]) > 0
    /\ ParseInt(Split(size_str)[2]) > 0

\* C25 as stated, in its last part: a job is 'completed' only when the
\* variant of every requested well-formed size in every requested supported
\* format has been uploaded.
C25_CompletedAfterEveryRequestedUpload ==
    \A m \in Msgs :
        result[m].status = "completed" =>
            \A t \in Targets(Get(payload[m].options.resize_formats, DefaultResizeFormats),
                             Get(payload[m].options.output_formats, DefaultOutputFormats)) :
                WellFormedSize(t[1]) =>
                    ResizedPath(payload[m].image_id[1], ResultKey(t[1], t[2]))
                        \in Range(run[m].uploads)

\* C25, amended: the stages of a run are entered in the order download,
\* metadata, original upload, thumbnail (only if enabled), thumbnail upload,
\* resize (only if requested), resized uploads; the original is uploaded
\* only after a successful download, the thumbnail only after the original
\* is stored, a resized variant only after the thumbnail is stored or the
\* thumbnail stage was skipped as disabled; a result is 'completed' only
\* when the original, the thumbnail if enabled and every variant that
\* resize_image returned are uploaded, and nothing is uploaded afterwards.
C25_StagesInOrder ==
    /\ [](\A m \in Msgs :
            LET st == run[m].stages
                up == run[m].uploads
                out == result[m].outputs
                id == payload[m].image_id[1]
            IN  /\ \A i \in 1..Len(st) : \A j \in (i + 1)..Len(st) :
                       \/ StageRank(st[i]) < StageRank(st[j])
                       \/ st[i] = "upload_resized" /\ st[j] = "upload_resized"
                /\ "thumbnail" \in Range(st) => ThumbnailEnabled(m)
                /\ "resize" \in Range(st) => ResizeRequested(m)
                /\ \A j \in 1..Len(up) :
                       IF up[j] = OriginalPath(id)
                       THEN /\ j = 1
                            /\ run[m].response # None
                            /\ download_image(run[m].response[1]).ok
                            /\ ~Raised(m, "download")
                       ELSE IF up[j] = ThumbnailPath(id)
                       THEN /\ j = 2
                            /\ up[1] = OriginalPath(id)
                            /\ out.original # None
                            /\ "thumbnail" \in Range(st)
                       ELSE /\ out.original # None
                            /\ "resize" \in Range(st)
                            /\ IF ThumbnailEnabled(m)
                               THEN out.thumbnail # None /\ up[2] = ThumbnailPath(id)
                               ELSE "thumbnail" \notin Range(st)
                /\ result[m].status = "completed" =>
                       /\ out.original # None
                       /\ ThumbnailEnabled(m) => out.thumbnail # None
                       /\ ResizeRequested(m) =>
                              /\ run[m].resize_call # None
                              /\ out.resized = Some(Range(run[m].resize_call[1].results))
                              /\ \A key \in Range(run[m].resize_call[1].results) :
                                     ResizedPath(id, key) \in Range(up)
                       /\ resized_images[m] = <<>>
                       /\ \A i \in 1..Len(run[m].raised) :
                              run[m].raised[i] \in {"metadata", "resize"})
    /\ [][\A m \in Msgs :
             result[m].status = "completed" =>
                 run'[m].uploads = run[m].uploads /\ bucket' = bucket]_vars

\* A job with a thumbnail and two variants is 'completed' with all four
\* uploads done.
C25_Witness ==
    \E m \in Msgs :
        /\ pc[m] = "acked"
        /\ result[m].status = "completed"
        /\ ThumbnailEnabled(m)
        /\ Len(run[m].uploads) = 4
        /\ run[m].stages = <<"download", "metadata", "upload_original", "thumbnail",
                             "upload_thumbnail", "resize", "upload_resized",
                             "upload_resized">>

\* C26: a message handed to process_message is settled in the end, and
\* each delivery is settled once: when the message is not with a callback
\* every delivery of it has been acked or nacked, once, and while it is
\* with a callback the current delivery has neither.
C26_EveryDeliverySettledOnce ==
    /\ \A m \in Msgs : (pc[m] = "received") ~> (pc[m] \in {"queued", "acked"})
    /\ [](\A m \in Msgs :
             acks[m] + nacks[m] = deliveries[m] - (IF InFlight(m) THEN 1 ELSE 0))
    /\ [][\A m \in Msgs :
             /\ acks'[m] + nacks'[m] <= acks[m] + nacks[m] + 1
             /\ acks'[m] + nacks'[m] # acks[m] + nacks[m] =>
                    InFlight(m) /\ ~InFlight(m)']_vars

\* The single delivery of a job was settled by an ack, after its status was
\* handed to update_job_status.
C26_Witness ==
    \E m \in Msgs :
        /\ pc[m] = "acked"
        /\ deliveries[m] = 1
        /\ acks[m] = 1
        /\ nacks[m] = 0
        /\ run[m].update_calls = 1

\* C27: a result that process_image_job has returned is 'completed' or
\* 'failed', never 'processing'; its error list is non-empty exactly when
\* it is 'failed'; a 'completed' result has no error and an 'original'
\* output; a 'failed' result has exactly one error.
C27_ReturnedResultConsistent ==
    \A m \in Msgs :
        Returned(m) =>
            /\ result[m].status \in Terminal
            /\ result[m].errors # <<>> <=> result[m].status = "failed"
            /\ result[m].status = "completed" =>
                   /\ result[m].errors = <<>>
                   /\ result[m].outputs.original # None
            /\ result[m].status = "failed" => Len(result[m].errors) = 1

\* A job has failed in the thumbnail stage, after its original was stored,
\* and its result is returned.
C27_Witness ==
    \E m \in Msgs :
        /\ Returned(m)
        /\ result[m].status = "failed"
        /\ result[m].errors = <<"thumbnail failed">>
        /\ result[m].outputs.original # None

\* C28: when update_job_status could not write the status (the document is
\* missing or the store unavailable), no exception escapes and the message
\* is acked all the same: it is about to be acked, with nothing in the way,
\* or is acked, and is not nacked; the document is then as it was, which
\* need not be a terminal status.
C28_StoreFailureStillAcked ==
    \A m \in Msgs :
        (run[m].update_calls >= 1 /\ run[m].persisted = <<>>) =>
            /\ ~run[m].escaped
            /\ nacks[m] = 0
            /\ result[m].status \in Terminal
            /\ \/ pc[m] = "ack" /\ acks[m] = 0 /\ ENABLED Ack(m)
               \/ pc[m] = "acked" /\ acks[m] = 1

\* A message is acked while its job has no status document.
C28_Witness ==
    \E m \in Msgs :
        /\ pc[m] = "acked"
        /\ acks[m] = 1
        /\ result[m].status = "completed"
        /\ run[m].update_calls = 1
        /\ run[m].persisted = <<>>
        /\ firestore[payload[m].job_id[1]] = "missing"
        /\ firestore[payload[m].job_id[1]] \notin Terminal

\* C29: for a decodable source w x h and a box "WxH" with w, h, W, H
\* positive, both sides of the resize target are at least 1, and the
\* variant is returned unless its encoder fails.
C29_TargetNeverEmpty ==
    \A m \in DOMAIN pc :
        run[m].resize_call # None =>
            LET c == run[m].resize_call[1]
            IN  \A i \in 1..Len(c.target_sizes) :
                    LET target == PlanSize(c.image, c.target_sizes[i])
                    IN  (/\ c.image.decodable
                         /\ c.image.width > 0 /\ c.image.height > 0
                         /\ WellFormedSize(c.target_sizes[i])) =>
                            /\ target.width >= 1
                            /\ target.height >= 1
                            /\ c.fails = {} =>
                                   \A k \in 1..Len(c.output_formats) :
                                       Supported(c.output_formats[k]) =>
                                           ResultKey(c.target_sizes[i], c.output_formats[k])
                                               \in Range(c.results)

====
